---- MODULE Spec2Model ----
(***************************************************************************)
(* A model of the Simple_mcp demo: the client script sim_client.py         *)
(* (send_mcp_request and main) talking to an arbitrary HTTP/SSE server,    *)
(* and the greet tool of sim_server.py.                                    *)
(*                                                                         *)
(* Python values are single-field records, so that values of different     *)
(* Python types can be compared: None, str, int, list and dict (a dict is  *)
(* the sequence of its <<key, value>> items, in insertion order).          *)
(***************************************************************************)
EXTENDS Integers, Sequences, FiniteSets, TLC

VARIABLES
    pc,             \* main: where the coroutine stands
    session_id,     \* main: token returned by the initialize exchange
    init_response,  \* main: payload of the initialize exchange
    tools_response, \* main: payload of the tools/list exchange
    result,         \* main: payload of the latest tools/call exchange
    idx,            \* main: loop index of "for idx, name in enumerate(names)"
    out,            \* lines written to stdout, in order
    escaped,        \* an exception left main() unhandled
    rpc,            \* send_mcp_request: where the coroutine stands
    request_data,   \* send_mcp_request: the request being exchanged
    headers,        \* send_mcp_request: the request headers built
    status_code,    \* response.status_code of the open response
    stream,         \* lines aiter_lines() has yielded from the open response
    response_data,  \* send_mcp_request: last parsed payload
    ret,            \* value send_mcp_request returned to its caller
    err,            \* exception raised inside the latest exchange ("none" if none)
    sent,           \* requests handed to client.stream(), in order, with headers
    svName,         \* server: argument of the latest greet call
    svResult,       \* server: value the latest greet call returned
    mcp             \* server: tools registered on the FastMCP instance

vars == <<pc, session_id, init_response, tools_response, result, idx, out,
          escaped, rpc, request_data, headers, status_code, stream,
          response_data, ret, err, sent, svName, svResult, mcp>>

mainVars == <<pc, session_id, init_response, tools_response, result, idx, escaped>>
reqVars == <<rpc, request_data, headers, status_code, stream, response_data, ret,
             err, sent>>
serverVars == <<svName, svResult, mcp>>

\* ------------------------------------------------------------------ bounds

\* Longest event stream (in lines) of a response, when send_mcp_request is
\* exercised alone.
MaxLines == 2
\* Longest event stream (in lines) the server answers a request of main() with.
MaxMainLines == 1
\* Longest name handed to greet in the server specification.
MaxNameLen == 3

\* ----------------------------------------------------------- Python values

None == [none |-> TRUE]
Str(s) == [str |-> s]
Num(n) == [num |-> n]
List(items) == [list |-> items]
Dict(items) == [dict |-> items]

IsNone(v) == "none" \in DOMAIN v
IsStr(v) == "str" \in DOMAIN v
IsNum(v) == "num" \in DOMAIN v
IsList(v) == "list" \in DOMAIN v
IsDict(v) == "dict" \in DOMAIN v

\* The outcome of evaluating an expression: a value, or an exception raised.
Ok(v) == [ok |-> v]
Raise(e) == [raise |-> e]
Raised(r) == "raise" \in DOMAIN r

\* bool(v), as "if v" and "not v" and "a or b" take it.
Truthy(v) ==
    IF IsNone(v) THEN FALSE
    ELSE IF IsStr(v) THEN v.str # ""
    ELSE IF IsNum(v) THEN v.num # 0
    ELSE IF IsList(v) THEN Len(v.list) > 0
    ELSE Len(v.dict) > 0

\* "a or b"
PyOr(a, b) == IF Truthy(a) THEN a ELSE b

HasKey(d, key) == \E i \in 1..Len(d.dict) : d.dict[i][1] = key
Lookup(d, key) == d.dict[CHOOSE i \in 1..Len(d.dict) : d.dict[i][1] = key][2]

\* v.get(key, default): only a dict has the method.
PyGet(v, key, default) ==
    IF ~IsDict(v) THEN Raise("AttributeError")
    ELSE IF HasKey(v, key) THEN Ok(Lookup(v, key))
    ELSE Ok(default)

\* Whether string s holds string p as a substring.
Substring(p, s) ==
    \E i \in 1..(Len(s) - Len(p) + 1) : SubSeq(s, i, i + Len(p) - 1) = p

\* "key in v" for a string key.
PyIn(key, v) ==
    IF IsDict(v) THEN Ok(HasKey(v, key))
    ELSE IF IsList(v) THEN Ok(\E i \in 1..Len(v.list) : v.list[i] = Str(key))
    ELSE IF IsStr(v) THEN Ok(Substring(key, v.str))
    ELSE Raise("TypeError")

\* --------------------------------------------------------------- str methods

Whitespace == {" ", "\t", "\r", "\n"}

RECURSIVE lstrip(_)
lstrip(s) ==
    IF Len(s) > 0 /\ SubSeq(s, 1, 1) \in Whitespace
    THEN lstrip(SubSeq(s, 2, Len(s)))
    ELSE s

RECURSIVE rstrip(_)
rstrip(s) ==
    IF Len(s) > 0 /\ SubSeq(s, Len(s), Len(s)) \in Whitespace
    THEN rstrip(SubSeq(s, 1, Len(s) - 1))
    ELSE s

\* str.strip()
strip(s) == rstrip(lstrip(s))

\* str.startswith(prefix)
startswith(s, prefix) ==
    Len(s) >= Len(prefix) /\ SubSeq(s, 1, Len(prefix)) = prefix

\* ------------------------------------------------------------ sim_server.py

\* A greet that drops the exclamation mark after the name.
greet_NoBang(name) == "Hello, " \o name \o " Welcome to the FastMCP server!"

\* greet(name): the one tool of the server.
greet(name) == "Hello, " \o name \o "! Welcome to the FastMCP server!"

\* Tools the @mcp.tool() decorator has registered when the module is loaded.
RegisteredTools == {"greet"}

\* --------------------------------------------------- JSON texts on the wire

T_empty == "{}"
T_null == "null"
T_list == "[1]"
T_error == "{\"error\":{\"message\":\"Invalid request\"}}"
T_result_empty == "{\"result\":{}}"
T_result_null == "{\"result\":null}"
T_init_full ==
    "{\"result\":{\"serverInfo\":{\"name\":\"Greeting Server\",\"version\":\"2.0\"}}}"
T_init_name == "{\"result\":{\"serverInfo\":{\"name\":\"Greeting Server\"}}}"
T_init_version == "{\"result\":{\"serverInfo\":{\"version\":\"2.0\"}}}"
T_tools ==
    "{\"result\":{\"tools\":[{\"name\":\"greet\",\"description\":\"A simple greeting tool\"},"
    \o "{\"name\":\"echo\"},{\"description\":\"nameless\"}]}}"
T_tools_empty == "{\"result\":{\"tools\":[]}}"
T_call(text) ==
    "{\"result\":{\"content\":[{\"type\":\"text\",\"text\":\"" \o text \o "\"}]}}"

V_error == Dict(<< <<"error", Dict(<< <<"message", Str("Invalid request")>> >>)>> >>)
V_result_empty == Dict(<< <<"result", Dict(<<>>)>> >>)
V_result_null == Dict(<< <<"result", None>> >>)
V_init_full ==
    Dict(<< <<"result", Dict(<< <<"serverInfo",
        Dict(<< <<"name", Str("Greeting Server")>>, <<"version", Str("2.0")>> >>)>> >>)>> >>)
V_init_name ==
    Dict(<< <<"result", Dict(<< <<"serverInfo",
        Dict(<< <<"name", Str("Greeting Server")>> >>)>> >>)>> >>)
V_init_version ==
    Dict(<< <<"result", Dict(<< <<"serverInfo",
        Dict(<< <<"version", Str("2.0")>> >>)>> >>)>> >>)
D_greet ==
    Dict(<< <<"name", Str("greet")>>, <<"description", Str("A simple greeting tool")>> >>)
D_echo == Dict(<< <<"name", Str("echo")>> >>)
D_nameless == Dict(<< <<"description", Str("nameless")>> >>)
V_tools ==
    Dict(<< <<"result", Dict(<< <<"tools", List(<<D_greet, D_echo, D_nameless>>)>> >>)>> >>)
V_tools_empty == Dict(<< <<"result", Dict(<< <<"tools", List(<<>>)>> >>)>> >>)
V_call(text) ==
    Dict(<< <<"result", Dict(<< <<"content",
        List(<< Dict(<< <<"type", Str("text")>>, <<"text", Str(text)>> >>) >>)>> >>)>> >>)

\* The names main() greets.
names == <<"tea", "stu">>

\* What json.loads makes of the well-formed texts of the model.
JsonTable ==
    (T_empty :> Dict(<<>>)) @@ (T_null :> None) @@ (T_list :> List(<<Num(1)>>))
    @@ (T_error :> V_error) @@ (T_result_empty :> V_result_empty)
    @@ (T_result_null :> V_result_null) @@ (T_init_full :> V_init_full)
    @@ (T_init_name :> V_init_name) @@ (T_init_version :> V_init_version)
    @@ (T_tools :> V_tools) @@ (T_tools_empty :> V_tools_empty)
    @@ (T_call(greet(names[1])) :> V_call(greet(names[1])))
    @@ (T_call(greet(names[2])) :> V_call(greet(names[2])))

\* json.loads(text): the value, or JSONDecodeError for a text that is no JSON.
json_loads(text) ==
    IF text \in DOMAIN JsonTable THEN Ok(JsonTable[text]) ELSE Raise("JSONDecodeError")

\* ----------------------------------------------------- stream lines served

\* Lines that carry no payload: blank, comment, another SSE field, and data
\* lines whose text is not JSON.
JunkLines == {"  ", ": ping", "event: message", "data: {oops", "data:"}

\* A data line for a JSON text, as a server may frame it.
DataLine(text) == "data: " \o text
DataLineTight(text) == "data:" \o text
DataLinePadded(text) == "  data:   " \o text \o " \r"

\* Lines the server may answer a request of main() with.
MainLines(request) ==
    {"data: {oops"}
    \cup
    (IF request.method = "initialize"
     THEN {DataLine(T_init_full), DataLineTight(T_init_name), DataLine(T_init_version),
           DataLine(T_result_empty), DataLine(T_error), DataLine(T_empty),
           DataLinePadded(T_list)}
     ELSE IF request.method = "tools/list"
     THEN {DataLine(T_tools), DataLineTight(T_tools_empty), DataLine(T_result_empty),
           DataLine(T_error), DataLinePadded(T_result_null), DataLine(T_empty)}
     ELSE {DataLine(T_call(greet(request.params.arguments.name))),
           DataLine(T_result_empty), DataLine(T_error), DataLine(T_result_null)})

\* Lines the server may answer with when send_mcp_request is exercised alone.
AnyLines ==
    JunkLines
    \cup {DataLine(T_init_full), DataLineTight(T_tools_empty), DataLinePadded(T_error),
          DataLine(T_null), DataLine(T_empty), "data " \o T_list}

\* Status codes a response may carry.
Statuses == {200, 204, 500}

\* Response headers: the values headers.get('mcp-session-id') and
\* headers.get('x-session-id') give (None for a header that is absent).
ResponseHeaders ==
    { [mcp |-> None, x |-> None],
      [mcp |-> Str("s1"), x |-> None],
      [mcp |-> Str(""), x |-> Str("x1")],
      [mcp |-> Str(""), x |-> Str("")] }

\* Exceptions of the transport: before a response is there, and while it is read.
ConnectErrors == {"ConnectError"}
ReadErrors == {"ReadError"}

\* ------------------------------------------------ sim_client.py: requests

server_url == "http://127.0.0.1:8000/mcp"

init_request ==
    [jsonrpc |-> "2.0", id |-> 1, method |-> "initialize",
     params |-> [protocolVersion |-> "2024-11-05", capabilities |-> <<>>,
                 clientInfo |-> [name |-> "test-client", version |-> "1.0"]]]

list_request == [jsonrpc |-> "2.0", id |-> 2, method |-> "tools/list", params |-> <<>>]

\* A call_request that forgets the loop index in the id.
call_request_SameId(i) ==
    [jsonrpc |-> "2.0", id |-> 3, method |-> "tools/call",
     params |-> [name |-> "greet", arguments |-> [name |-> names[i + 1]]]]

\* The request of loop round i (0-based, as enumerate counts).
call_request(i) ==
    [jsonrpc |-> "2.0", id |-> 3 + i, method |-> "tools/call",
     params |-> [name |-> "greet", arguments |-> [name |-> names[i + 1]]]]

\* ---------------------------------------- sim_client.py: send_mcp_request

\* Headers built with "if session_id is not None" in place of "if session_id".
BuildHeaders_NotNone(sid) ==
    LET base == ("Accept" :> "application/json, text/event-stream")
                @@ ("Content-Type" :> "application/json")
    IN  IF ~IsNone(sid) THEN base @@ ("mcp-session-id" :> sid.str) ELSE base

\* The headers of a request made with session token sid.
BuildHeaders(sid) ==
    LET base == ("Accept" :> "application/json, text/event-stream")
                @@ ("Content-Type" :> "application/json")
    IN  IF Truthy(sid) THEN base @@ ("mcp-session-id" :> sid.str) ELSE base

\* A loop body that resets response_data on a data line that is not JSON.
ParseLine_ClearsOnBadJson(raw, data) ==
    LET line == strip(raw)
    IN  IF line = "" \/ startswith(line, ":") THEN Ok(data)
        ELSE IF startswith(line, "data:")
        THEN LET parsed == json_loads(strip(SubSeq(line, 6, Len(line))))
             IN  IF ~Raised(parsed) THEN Ok(parsed.ok) ELSE Ok(None)
        ELSE Ok(data)

\* One round of the "async for line" loop: response_data after the line raw,
\* given response_data before it; or the exception the round raises.
ParseLine(raw, data) ==
    LET line == strip(raw)
    IN  IF line = "" \/ startswith(line, ":") THEN Ok(data)
        ELSE IF startswith(line, "data:")
        THEN LET data_str == strip(SubSeq(line, 6, Len(line)))
                 parsed == json_loads(data_str)
             IN  IF ~Raised(parsed) THEN Ok(parsed.ok)
                 ELSE IF parsed.raise = "JSONDecodeError" THEN Ok(data)
                 ELSE parsed
        ELSE Ok(data)

\* The token taken from the response headers h.
new_session_id(h) == PyOr(h.mcp, h.x)

\* "if response.status_code != 200"
StatusFails(code) == code # 200

\* The body of a response that is not a 200.
error_text == Str("Internal Server Error")

\* Classes deriving from Exception, which "except Exception" catches.
Exceptions ==
    {"ConnectError", "ReadError", "JSONDecodeError", "AttributeError", "TypeError",
     "KeyError", "IndexError"}

\* A handler that catches the errors of reading only.
SendCatches_ReadOnly(e) == e \in Exceptions \ {"ConnectError"}

\* Whether the handler of send_mcp_request catches e.
SendCatches(e) == e \in Exceptions

\* A failure path that hands back what was parsed before the failure.
FailureReturn_KeepsPayload == <<response_data, None>>

\* What send_mcp_request returns from its failure paths.
FailureReturn == <<None, None>>

\* A main() left with its "except httpx.ConnectError" clause only.
MainHandler_ConnectOnly(e) == IF e = "ConnectError" THEN "connect" ELSE "none"

\* Which handler of main() takes e: "except httpx.ConnectError", "except
\* Exception", or none.
MainHandler(e) ==
    IF e = "ConnectError" THEN "connect"
    ELSE IF e \in Exceptions THEN "generic"
    ELSE "none"

\* What the handler of main() prints for e.
MainHandlerLines(e) ==
    IF MainHandler(e) = "connect"
    THEN << <<"[ERROR] Could not connect to server">>, <<"Error: ", Str(e)>>,
            <<"\nMake sure the server is running:">>, <<"  python sim_server.py">> >>
    ELSE IF MainHandler(e) = "generic"
    THEN << <<"[ERROR] ", Str(e)>>, <<"\nTroubleshooting:">>,
            <<"1. Verify server is running: python sim_server.py">>,
            <<"2. Check server URL is correct: http://127.0.0.1:8000/mcp">>,
            <<"3. Check server logs for any errors">> >>
    ELSE <<>>

\* Exception e reaches the try statement of main(), after main printed lines.
MainRaises(lines, e) ==
    /\ out' = out \o lines \o MainHandlerLines(e)
    /\ escaped' = (MainHandler(e) = "none")
    /\ pc' = "done"
    /\ rpc' = "idle"

\* Exception e is raised inside the try statement of send_mcp_request.
SendRaises(e) ==
    /\ err' = e
    /\ IF SendCatches(e)
       THEN /\ out' = Append(out, <<"Error in request: ", Str(e)>>)
            /\ ret' = FailureReturn
            /\ rpc' = "ret"
            /\ UNCHANGED <<pc, escaped>>
       ELSE /\ MainRaises(<<>>, e)
            /\ UNCHANGED ret

\* send_mcp_request(client, server_url, request, sid) is entered.
Call(request, sid) ==
    /\ rpc' = "request"
    /\ request_data' = request
    /\ headers' = BuildHeaders(sid)
    /\ response_data' = None
    /\ stream' = <<>>
    /\ status_code' = 0
    /\ err' = "none"
    /\ ret' = <<None, None>>
    /\ UNCHANGED sent

Posted == [url |-> server_url, json |-> request_data, headers |-> headers]

\* client.stream(...) posts the request and a response with status s arrives.
OpenStream(s) ==
    /\ rpc = "request"
    /\ sent' = Append(sent, Posted)
    /\ status_code' = s
    /\ rpc' = "response"
    /\ UNCHANGED <<request_data, headers, stream, response_data, ret, err, out>>
    /\ UNCHANGED <<mainVars, serverVars>>

\* client.stream(...) posts the request and raises: the server is not reached.
ConnectFails(e) ==
    /\ rpc = "request"
    /\ sent' = Append(sent, Posted)
    /\ SendRaises(e)
    /\ UNCHANGED <<request_data, headers, stream, response_data, status_code>>
    /\ UNCHANGED <<session_id, init_response, tools_response, result, idx, serverVars>>

\* The response is not a 200: its body is read and printed.
StatusError ==
    /\ rpc = "response"
    /\ StatusFails(status_code)
    /\ out' = out \o << <<"Error: ", Num(status_code)>>, <<"Response: ", error_text>> >>
    /\ ret' = FailureReturn
    /\ rpc' = "ret"
    /\ stream' = <<>>
    /\ UNCHANGED <<request_data, headers, response_data, status_code, err, sent>>
    /\ UNCHANGED <<mainVars, serverVars>>

\* aiter_lines() yields the line raw and the loop body runs on it.
ReadLine(raw) ==
    /\ rpc = "response"
    /\ ~StatusFails(status_code)
    /\ LET r == ParseLine(raw, response_data)
       IN  IF Raised(r)
           THEN SendRaises(r.raise) /\ stream' = <<>> /\ UNCHANGED response_data
           ELSE /\ response_data' = r.ok
                /\ stream' = Append(stream, raw)
                /\ UNCHANGED <<out, ret, rpc, err, pc, escaped>>
    /\ UNCHANGED <<request_data, headers, status_code, sent>>
    /\ UNCHANGED <<session_id, init_response, tools_response, result, idx, serverVars>>

\* The stream ends: the token is taken from the headers h, the response is
\* closed and the pair returned.
EndStream(h) ==
    /\ rpc = "response"
    /\ ~StatusFails(status_code)
    /\ ret' = <<response_data, new_session_id(h)>>
    /\ rpc' = "ret"
    /\ stream' = <<>>
    /\ UNCHANGED <<request_data, headers, response_data, status_code, err, sent, out>>
    /\ UNCHANGED <<mainVars, serverVars>>

\* Reading the response (aread() or aiter_lines()) raises.
ReadFails(e) ==
    /\ rpc = "response"
    /\ SendRaises(e)
    /\ stream' = <<>>
    /\ UNCHANGED <<request_data, headers, response_data, status_code, sent>>
    /\ UNCHANGED <<session_id, init_response, tools_response, result, idx, serverVars>>

\* ------------------------------------------------- sim_client.py: main

\* Iterating v, as "for tool in v" does.
RECURSIVE Chars(_)
Chars(s) == IF s = "" THEN <<>> ELSE <<Str(SubSeq(s, 1, 1))>> \o Chars(SubSeq(s, 2, Len(s)))

Iter(v) ==
    IF IsList(v) THEN Ok(v.list)
    ELSE IF IsDict(v) THEN Ok([i \in 1..Len(v.dict) |-> Str(v.dict[i][1])])
    ELSE IF IsStr(v) THEN Ok(Chars(v.str))
    ELSE Raise("TypeError")

\* len(v)
PyLen(v) ==
    IF IsList(v) THEN Ok(Len(v.list))
    ELSE IF IsDict(v) THEN Ok(Len(v.dict))
    ELSE IF IsStr(v) THEN Ok(Len(v.str))
    ELSE Raise("TypeError")

\* v[0]
First(v) ==
    IF IsList(v) THEN (IF Len(v.list) > 0 THEN Ok(v.list[1]) ELSE Raise("IndexError"))
    ELSE IF IsStr(v) THEN (IF v.str # "" THEN Ok(Str(SubSeq(v.str, 1, 1)))
                           ELSE Raise("IndexError"))
    ELSE IF IsDict(v) THEN Raise("KeyError")
    ELSE Raise("TypeError")

\* "if not init_response"
InitFailed(v) == ~Truthy(v)

\* The condition cut down to "if v".
HasResult_TruthyOnly(v) == Ok(Truthy(v))

\* "v and 'result' in v": the truth of the condition, or the exception raised.
HasResult(v) == IF ~Truthy(v) THEN Ok(FALSE) ELSE PyIn("result", v)

\* A report that reads init_response['result'] without a default.
InitReport_StrictResult(resp, sid) ==
    LET r1 == IF IsDict(resp) /\ ~HasKey(resp, "result") THEN Raise("KeyError")
              ELSE PyGet(resp, "result", Dict(<<>>))
        server_info == IF Raised(r1) THEN r1 ELSE PyGet(r1.ok, "serverInfo", Dict(<<>>))
        name == IF Raised(server_info) THEN server_info
                ELSE PyGet(server_info.ok, "name", Str("unknown"))
        version == IF Raised(server_info) THEN server_info
                   ELSE PyGet(server_info.ok, "version", Str("unknown"))
        connected == <<"[OK] Connected to MCP server\n">>
    IN  IF Raised(name) THEN [lines |-> <<connected>>, exc |-> name.raise]
        ELSE [lines |-> <<connected, <<"Server name: ", name.ok>>,
                          <<"Server version: ", version.ok, "\n">>,
                          <<"Session ID: ", sid, "\n">> >>,
              exc |-> "none"]

\* What main prints for a truthy initialize payload, up to the session line,
\* and the exception that cuts it short ("none" if none).
InitReport(resp, sid) ==
    LET r1 == PyGet(resp, "result", Dict(<<>>))
        server_info == IF Raised(r1) THEN r1 ELSE PyGet(r1.ok, "serverInfo", Dict(<<>>))
        name == IF Raised(server_info) THEN server_info
                ELSE PyGet(server_info.ok, "name", Str("unknown"))
        version == IF Raised(server_info) THEN server_info
                   ELSE PyGet(server_info.ok, "version", Str("unknown"))
        connected == <<"[OK] Connected to MCP server\n">>
    IN  IF Raised(name) THEN [lines |-> <<connected>>, exc |-> name.raise]
        ELSE [lines |-> <<connected, <<"Server name: ", name.ok>>,
                          <<"Server version: ", version.ok, "\n">>,
                          <<"Session ID: ", sid, "\n">> >>,
              exc |-> "none"]

\* A line that reads tool['description'] without a default.
ToolLine_StrictDescription(tool) ==
    LET name == PyGet(tool, "name", Str("unknown"))
        description == IF IsDict(tool) /\ ~HasKey(tool, "description")
                       THEN Raise("KeyError")
                       ELSE PyGet(tool, "description", Str("N/A"))
    IN  IF Raised(name) THEN name
        ELSE IF Raised(description) THEN description
        ELSE Ok(<<"  - ", name.ok, ": ", description.ok>>)

\* The line printed for one descriptor, or the exception raised.
ToolLine(tool) ==
    LET name == PyGet(tool, "name", Str("unknown"))
        description == PyGet(tool, "description", Str("N/A"))
    IN  IF Raised(name) THEN name
        ELSE Ok(<<"  - ", name.ok, ": ", description.ok>>)

\* The lines of "for tool in tools", and the exception that cuts them short.
RECURSIVE ToolLines(_)
ToolLines(tools) ==
    IF Len(tools) = 0 THEN [lines |-> <<>>, exc |-> "none"]
    ELSE LET first == ToolLine(Head(tools))
             rest == ToolLines(Tail(tools))
         IN  IF Raised(first) THEN [lines |-> <<>>, exc |-> first.raise]
             ELSE [lines |-> <<first.ok>> \o rest.lines, exc |-> rest.exc]

\* What main prints for a tools/list payload that holds 'result'.
ToolsReport(resp) ==
    LET r1 == PyGet(resp, "result", Dict(<<>>))
        tools == IF Raised(r1) THEN r1 ELSE PyGet(r1.ok, "tools", List(<<>>))
        items == IF Raised(tools) THEN tools ELSE Iter(tools.ok)
        header == <<"Available tools:">>
    IN  IF Raised(tools) THEN [lines |-> <<>>, exc |-> tools.raise]
        ELSE IF Raised(items) THEN [lines |-> <<header>>, exc |-> items.raise]
        ELSE LET body == ToolLines(items.ok)
             IN  IF body.exc # "none"
                 THEN [lines |-> <<header>> \o body.lines, exc |-> body.exc]
                 ELSE [lines |-> <<header>> \o body.lines \o << <<"">> >>, exc |-> "none"]

\* What main prints for a tools/list payload that fails the condition.
ToolsErrorLines(resp) ==
    << <<"Error listing tools">> >>
    \o (IF Truthy(resp) THEN << <<"Response: ", resp>> >> ELSE <<>>)

\* What main prints for the tools/call payload res of the call for name,
\* given that the payload holds 'result'.
CallReport(res, name) ==
    LET r1 == PyGet(res, "result", Dict(<<>>))
        content == IF Raised(r1) THEN r1 ELSE PyGet(r1.ok, "content", List(<<>>))
        header == <<"Greeting for ", name, ":">>
        size == IF Raised(content) \/ ~Truthy(content.ok) THEN Ok(0) ELSE PyLen(content.ok)
        first == IF Raised(size) THEN size ELSE First(content.ok)
        text == IF Raised(first) THEN first ELSE PyGet(first.ok, "text", Str("No response"))
    IN  IF Raised(content) THEN [lines |-> <<>>, exc |-> content.raise]
        ELSE IF ~Truthy(content.ok)
        THEN [lines |-> <<header, <<"  (No response)">>, <<"">> >>, exc |-> "none"]
        ELSE IF Raised(size) THEN [lines |-> <<header>>, exc |-> size.raise]
        ELSE IF size.ok <= 0
        THEN [lines |-> <<header, <<"  (No response)">>, <<"">> >>, exc |-> "none"]
        ELSE IF Raised(text) THEN [lines |-> <<header>>, exc |-> text.raise]
        ELSE [lines |-> <<header, <<"  ", text.ok>>, <<"">> >>, exc |-> "none"]

\* What main prints for a tools/call payload that fails the condition.
CallErrorLines(res, name) ==
    << <<"Error calling tool for ", name>> >>
    \o (IF Truthy(res) THEN << <<"Response: ", res>> >> ELSE <<>>)

\* The returned pair has been taken by main() and the frame of
\* send_mcp_request is gone.
Taken ==
    /\ ret' = <<None, None>>
    /\ response_data' = None
    /\ status_code' = 0
    /\ UNCHANGED <<request_data, headers, stream, err, sent>>

\* main() returns after printing lines.
Finish(lines) ==
    /\ out' = out \o lines
    /\ pc' = "done"
    /\ rpc' = "idle"
    /\ Taken
    /\ UNCHANGED escaped

\* main() prints lines and an exception e is raised in its body.
Fault(lines, e) ==
    /\ MainRaises(lines, e)
    /\ Taken

\* main() prints lines and awaits send_mcp_request(request, sid) at label.
Await(lines, request, sid, label) ==
    /\ out' = out \o lines
    /\ pc' = label
    /\ Call(request, sid)
    /\ UNCHANGED escaped

\* main() starts: it builds init_request and awaits the initialize exchange.
Start ==
    /\ pc = "start"
    /\ Await(<< <<"Connecting to MCP server at ", server_url, "...\n">>,
                <<"Initializing connection...\n">> >>,
             init_request, None, "init")
    /\ UNCHANGED <<session_id, init_response, tools_response, result, idx, serverVars>>

\* The initialize exchange has returned: main reports it and asks for the tools.
AfterInit ==
    /\ pc = "init"
    /\ rpc = "ret"
    /\ init_response' = ret[1]
    /\ session_id' = ret[2]
    /\ IF InitFailed(ret[1])
       THEN Finish(<< <<"Failed to initialize server connection">> >>)
       ELSE LET report == InitReport(ret[1], ret[2])
            IN  IF report.exc # "none"
                THEN Fault(report.lines, report.exc)
                ELSE Await(report.lines \o << <<"Fetching available tools...\n">> >>,
                           list_request, ret[2], "list")
    /\ UNCHANGED <<tools_response, result, idx, serverVars>>

\* The tools/list exchange has returned: main lists the tools and makes the
\* first call, or reports the failure.
AfterList ==
    /\ pc = "list"
    /\ rpc = "ret"
    /\ tools_response' = ret[1]
    /\ LET cond == HasResult(ret[1])
       IN  IF Raised(cond) THEN Fault(<<>>, cond.raise) /\ UNCHANGED idx
           ELSE IF ~cond.ok THEN Finish(ToolsErrorLines(ret[1])) /\ UNCHANGED idx
           ELSE LET report == ToolsReport(ret[1])
                IN  IF report.exc # "none"
                    THEN Fault(report.lines, report.exc) /\ UNCHANGED idx
                    ELSE /\ idx' = 0
                         /\ Await(report.lines, call_request(0), session_id, "call")
    /\ UNCHANGED <<session_id, init_response, result, serverVars>>

\* A tools/call exchange has returned: main reports it and goes on to the next
\* name, or returns after the last.
AfterCall ==
    /\ pc = "call"
    /\ rpc = "ret"
    /\ result' = ret[1]
    /\ LET name == names[idx + 1]
           cond == HasResult(ret[1])
           report == IF Raised(cond) THEN [lines |-> <<>>, exc |-> cond.raise]
                     ELSE IF cond.ok THEN CallReport(ret[1], name)
                     ELSE [lines |-> CallErrorLines(ret[1], name), exc |-> "none"]
       IN  IF report.exc # "none" THEN Fault(report.lines, report.exc) /\ UNCHANGED idx
           ELSE IF idx + 1 < Len(names)
           THEN /\ idx' = idx + 1
                /\ Await(report.lines, call_request(idx + 1), session_id, "call")
           ELSE Finish(report.lines) /\ UNCHANGED idx
    /\ UNCHANGED <<session_id, init_response, tools_response, serverVars>>

\* ----------------------------------------------------------- initial state

Init ==
    /\ pc = "start"
    /\ session_id = None
    /\ init_response = None
    /\ tools_response = None
    /\ result = None
    /\ idx = 0
    /\ out = <<>>
    /\ escaped = FALSE
    /\ rpc = "idle"
    /\ request_data = init_request
    /\ headers = BuildHeaders(None)
    /\ status_code = 0
    /\ stream = <<>>
    /\ response_data = None
    /\ ret = <<None, None>>
    /\ err = "none"
    /\ sent = <<>>
    /\ svName = ""
    /\ svResult = ""
    /\ mcp = RegisteredTools

\* ------------------------------- send_mcp_request exercised by a lone caller

\* Session tokens a caller may pass.
CallerTokens == {None, Str(""), Str("s1")}

\* A caller awaits send_mcp_request(client, server_url, request, sid).
ReqCall(request, sid) ==
    /\ pc = "start"
    /\ pc' = "await"
    /\ Call(request, sid)
    /\ UNCHANGED <<session_id, init_response, tools_response, result, idx, out, escaped>>
    /\ UNCHANGED serverVars

\* The caller takes the returned pair.
ReqReturn ==
    /\ pc = "await"
    /\ rpc = "ret"
    /\ pc' = "done"
    /\ rpc' = "idle"
    /\ UNCHANGED <<session_id, init_response, tools_response, result, idx, out, escaped>>
    /\ UNCHANGED <<request_data, headers, status_code, stream, response_data, ret, err,
                   sent>>
    /\ UNCHANGED serverVars

ReqNext ==
    \/ \E request \in {init_request, call_request(0)}, sid \in CallerTokens :
          ReqCall(request, sid)
    \/ \E s \in Statuses : OpenStream(s)
    \/ \E e \in ConnectErrors : ConnectFails(e)
    \/ StatusError
    \/ Len(stream) < MaxLines /\ \E raw \in AnyLines : ReadLine(raw)
    \/ \E h \in ResponseHeaders : EndStream(h)
    \/ \E e \in ReadErrors : ReadFails(e)
    \/ ReqReturn

ReqSpec == Init /\ [][ReqNext]_vars

\* ------------------------------------------------------ the client's run

Next ==
    \/ Start
    \/ \E s \in Statuses : OpenStream(s)
    \/ \E e \in ConnectErrors : ConnectFails(e)
    \/ StatusError
    \/ Len(stream) < MaxMainLines /\ \E raw \in MainLines(request_data) : ReadLine(raw)
    \/ \E h \in ResponseHeaders : EndStream(h)
    \/ \E e \in ReadErrors : ReadFails(e)
    \/ AfterInit
    \/ AfterList
    \/ AfterCall

Spec == Init /\ [][Next]_vars

\* Every exchange completes and the event loop keeps running main.
FairSpec == Spec /\ WF_vars(Next)

\* --------------------------------------------------- the server's greet tool

Alphabet == {"t", "e", "a", "s", "u"}

RECURSIVE NamesOfLen(_)
NamesOfLen(n) ==
    IF n = 0 THEN {""} ELSE {s \o c : s \in NamesOfLen(n - 1), c \in Alphabet}

Names == UNION {NamesOfLen(n) : n \in 0..MaxNameLen}

\* The framework calls the tool with the argument n.
Greet(n) ==
    /\ svName' = n
    /\ svResult' = greet(n)
    /\ UNCHANGED mcp
    /\ UNCHANGED <<mainVars, reqVars, out>>

GreetNext == \E n \in Names : Greet(n)

GreetSpec == Init /\ [][GreetNext]_vars

\* ================================================================== claims

\* ------------------------------------------------------------------- C1

\* Exchanges of main() whose await has completed.
Returned ==
    IF pc = "done" THEN Len(sent)
    ELSE (IF rpc = "ret" THEN 1 ELSE 0)
         + (IF pc = "list" THEN 1 ELSE IF pc = "call" THEN 2 + idx ELSE 0)

\* The request main() makes in the k-th place.
FixedOrder(k, request) ==
    /\ request.id = k
    /\ request.method = <<"initialize", "tools/list", "tools/call", "tools/call">>[k]
    /\ k >= 3 => /\ request.params.name = "greet"
                 /\ request.params.arguments.name = <<"tea", "stu">>[k - 2]

\* C1: the requests posted are, in order, initialize (id 1), tools/list (id 2),
\* tools/call greet "tea" (id 3) and tools/call greet "stu" (id 4), or a prefix
\* of that; a request is posted only when every earlier exchange has returned,
\* so at most one request is in flight, and it is in flight exactly while
\* send_mcp_request waits on the response.
C1_FixedOrder ==
    /\ Len(sent) <= 4
    /\ \A k \in 1..Len(sent) : FixedOrder(k, sent[k].json) /\ sent[k].url = server_url
    /\ Len(sent) - Returned \in {0, 1}
    /\ (Len(sent) - Returned = 1) <=> (rpc = "response")
    /\ rpc = "request" => Len(sent) = Returned

\* C1 witness: a run that made all four requests.
C1_Witness == pc = "done" /\ Len(sent) = 4 /\ sent[4].json.id = 4

\* ------------------------------------------------------------------- C2

\* C2: greet(name) is "Hello, ", then name, then "! Welcome to the FastMCP
\* server!", and nothing else; for "tea" and "stu" it is the two literal
\* greetings; the call leaves the registered tools as they were.
C2_Greet ==
    svResult # "" =>
        /\ Len(svResult) = Len(svName) + 39
        /\ SubSeq(svResult, 1, 7) = "Hello, "
        /\ SubSeq(svResult, 8, 7 + Len(svName)) = svName
        /\ SubSeq(svResult, 8 + Len(svName), Len(svResult))
               = "! Welcome to the FastMCP server!"
        /\ svName = "tea" => svResult = "Hello, tea! Welcome to the FastMCP server!"
        /\ svName = "stu" => svResult = "Hello, stu! Welcome to the FastMCP server!"
        /\ mcp = {"greet"}

\* C2 witness: greet was called with "stu".
C2_Witness == svName = "stu" /\ svResult = "Hello, stu! Welcome to the FastMCP server!"

\* ------------------------------------------------------------------- C3

\* Whether raw, its surrounding whitespace aside, starts with 'data:' and holds
\* well-formed JSON after it.
GoodDataLine(raw) ==
    /\ startswith(strip(raw), "data:")
    /\ strip(SubSeq(strip(raw), 6, Len(strip(raw)))) \in DOMAIN JsonTable

\* The value parsed from the last good data line of lines, None if there is none.
LastGood(lines) ==
    IF \E i \in 1..Len(lines) : GoodDataLine(lines[i])
    THEN LET last == CHOOSE i \in 1..Len(lines) :
                         /\ GoodDataLine(lines[i])
                         /\ \A j \in (i + 1)..Len(lines) : ~GoodDataLine(lines[j])
         IN  JsonTable[strip(SubSeq(strip(lines[last]), 6, Len(strip(lines[last]))))]
    ELSE None

\* C3: while a 200 response is read, response_data is the value of the last
\* good data line yielded so far (None if none); when the stream ends that
\* value is the payload returned; and no line makes the exchange raise: the
\* only exceptions of an exchange are the transport's.
C3_LastDataLine ==
    /\ [](rpc = "response" /\ ~StatusFails(status_code)
            => response_data = LastGood(stream))
    /\ [][(rpc = "response" /\ rpc' = "ret" /\ err' = "none"
            /\ ~StatusFails(status_code))
            => ret'[1] = LastGood(stream)]_vars
    /\ [](err \in {"none"} \cup ConnectErrors \cup ReadErrors)

\* C3 witness: a payload was parsed, then a malformed data line was read, and
\* the payload is still there.
C3_Witness ==
    /\ rpc = "response"
    /\ stream = <<DataLine(T_init_full), "data: {oops">>
    /\ response_data = V_init_full

\* ------------------------------------------------------------------- C4

\* The exchange has returned from a failure.
FailedReturn == rpc = "ret" /\ (StatusFails(status_code) \/ err # "none")

\* C4: a failed exchange (status not 200, or an exception of the transport at
\* any point) returns the pair (None, None), nothing is raised to the caller,
\* and the request was posted once only.
C4_FailureReturnsEmpty ==
    /\ ~escaped
    /\ Len(sent) <= 1
    /\ FailedReturn => ret = <<None, None>> /\ pc = "await"

\* C4 witness: the transport failed after a payload had been parsed.
C4_Witness ==
    /\ FailedReturn
    /\ err = "ReadError"
    /\ response_data = V_init_full
    /\ ret = <<None, None>>

\* ------------------------------------------------------------------- C5

\* The initialize request met a server that cannot be reached.
InitConnectFailed == Len(sent) = 1 /\ err = "ConnectError"

\* C5: when the initialize request fails with a connection error, nothing
\* escapes main(): send_mcp_request hands back (None, None), main can go on,
\* and it ends having printed the error and the failure to initialize, with no
\* further request.
C5_UnreachableServer ==
    InitConnectFailed =>
        /\ ~escaped
        /\ \/ /\ pc = "init"
              /\ rpc = "ret"
              /\ ret = <<None, None>>
              /\ ENABLED AfterInit
           \/ /\ pc = "done"
              /\ out = << <<"Connecting to MCP server at ", server_url, "...\n">>,
                          <<"Initializing connection...\n">>,
                          <<"Error in request: ", Str("ConnectError")>>,
                          <<"Failed to initialize server connection">> >>

\* C5 witness: main() has returned after the connection error.
C5_Witness == InitConnectFailed /\ pc = "done"

\* ------------------------------------------------------------------- C6

\* The mcp-session-id header of the posted request h, None if it has none.
TokenHeader(h) ==
    IF "mcp-session-id" \in DOMAIN h THEN Str(h["mcp-session-id"]) ELSE None

\* C6: the initialize request carries no mcp-session-id; every later request
\* carries the token the initialize exchange returned, and no header when that
\* token is None or empty; the token main() holds is the one that exchange
\* returned and it never changes afterwards, whatever later responses advertise.
C6_SessionToken ==
    /\ [](Len(sent) >= 1 => TokenHeader(sent[1].headers) = None)
    /\ [](\A k \in 2..Len(sent) :
            TokenHeader(sent[k].headers)
                = (IF session_id = None \/ session_id = Str("") THEN None ELSE session_id))
    /\ [][pc = "init" /\ pc' # "init" => session_id' = ret[2]]_vars
    /\ [][pc \notin {"start", "init"} => session_id' = session_id]_vars

\* C6 witness: the "tea" call went out with the token of the initialize
\* exchange and its response advertises another token.
C6_Witness ==
    /\ pc = "call" /\ idx = 0 /\ rpc = "ret"
    /\ session_id = Str("s1")
    /\ ret[2] = Str("x1")
    /\ TokenHeader(sent[3].headers) = Str("s1")

\* ------------------------------------------------------------------- C7

\* The value of key in dict d, default when d has no such key.
Field(d, key, default) ==
    IF \E i \in 1..Len(d.dict) : d.dict[i][1] = key
    THEN d.dict[CHOOSE i \in 1..Len(d.dict) : d.dict[i][1] = key][2]
    ELSE default

\* The tools/list payload holds a result with a list of descriptors, or with
\* no 'tools' field.
ToolsListed ==
    /\ IsDict(tools_response)
    /\ HasKey(tools_response, "result")
    /\ IsDict(Field(tools_response, "result", None))
    /\ LET tools == Field(Field(tools_response, "result", None), "tools", List(<<>>))
       IN  IsList(tools) /\ \A i \in 1..Len(tools.list) : IsDict(tools.list[i])

Descriptors == Field(Field(tools_response, "result", None), "tools", List(<<>>)).list

\* C7: for such a payload main() prints "Available tools:", then one line per
\* descriptor in list order with its name ('unknown' if missing) and its
\* description ('N/A' if missing), then the empty line that follows the loop:
\* no descriptor makes it raise, and no 'tools' field prints no descriptor.
C7_ToolLines ==
    ToolsListed =>
        \E h \in 1..Len(out) :
            /\ out[h] = <<"Available tools:">>
            /\ Len(out) >= h + Len(Descriptors) + 1
            /\ \A k \in 1..Len(Descriptors) :
                   out[h + k] = <<"  - ", Field(Descriptors[k], "name", Str("unknown")),
                                  ": ", Field(Descriptors[k], "description", Str("N/A"))>>
            /\ out[h + Len(Descriptors) + 1] = <<"">>

\* C7 witness: three descriptors were listed, one without a description and
\* one without a name.
C7_Witness ==
    /\ tools_response = V_tools
    /\ pc = "call"
    /\ \E h \in 1..Len(out) :
           /\ out[h + 2] = <<"  - ", Str("echo"), ": ", Str("N/A")>>
           /\ out[h + 3] = <<"  - ", Str("unknown"), ": ", Str("nameless")>>

\* ------------------------------------------------------------------- C8

\* The initialize payload is a non-empty object whose result and serverInfo,
\* where present, are objects.
InitWellFormed ==
    /\ IsDict(init_response)
    /\ Truthy(init_response)
    /\ IsDict(Field(init_response, "result", Dict(<<>>)))
    /\ IsDict(Field(Field(init_response, "result", Dict(<<>>)), "serverInfo", Dict(<<>>)))

ServerInfo == Field(Field(init_response, "result", Dict(<<>>)), "serverInfo", Dict(<<>>))

\* C8: after such an initialize exchange main() has printed the name and the
\* version of result.serverInfo, 'unknown' standing for whatever is missing,
\* and has gone on to the tools/list request.
C8_ServerInfo ==
    InitWellFormed =>
        /\ out[3] = <<"[OK] Connected to MCP server\n">>
        /\ out[4] = <<"Server name: ", Field(ServerInfo, "name", Str("unknown"))>>
        /\ out[5] = <<"Server version: ", Field(ServerInfo, "version", Str("unknown")), "\n">>
        /\ Len(sent) = 1 =>
               pc = "list" /\ rpc = "request" /\ request_data.method = "tools/list"
        /\ Len(sent) >= 2 => sent[2].json.method = "tools/list"

\* C8 witness: the payload had no result at all and tools/list was posted.
C8_Witness ==
    /\ init_response = V_error
    /\ out[4] = <<"Server name: ", Str("unknown")>>
    /\ Len(sent) = 2

\* ------------------------------------------------------------------- C9

\* C9: main() terminates, no exception ever escapes it, and it posts at most
\* four requests, no two with the same id.
C9_Terminates ==
    /\ <>(pc = "done")
    /\ [](~escaped)
    /\ [](/\ Len(sent) <= 4
          /\ \A i, j \in 1..Len(sent) : i # j => sent[i].json.id # sent[j].json.id
          /\ \A i \in 1..Len(sent) : sent[i].json.id \in 1..4)

\* C9 witness: an exception raised in the body of main() was handled and main
\* returned.
C9_Witness ==
    /\ pc = "done"
    /\ ~escaped
    /\ \E i \in 1..Len(out) : out[i] = <<"[ERROR] ", Str("AttributeError")>>

\* ------------------------------------------------------------------ C10

\* The tools/list exchange has returned a payload whose result is an object
\* with a list of descriptor objects, or with no 'tools' field.
ListSucceeded ==
    /\ pc = "list" /\ rpc = "ret"
    /\ IsDict(ret[1]) /\ HasKey(ret[1], "result")
    /\ IsDict(Field(ret[1], "result", None))
    /\ LET tools == Field(Field(ret[1], "result", None), "tools", List(<<>>))
       IN  IsList(tools) /\ \A i \in 1..Len(tools.list) : IsDict(tools.list[i])

\* The "tea" exchange has returned: a failure (no payload), a payload with no
\* 'result' (an error payload), or a payload whose result is an object with a
\* list of content objects, or with no 'content' field.
TeaReturned ==
    /\ pc = "call" /\ idx = 0 /\ rpc = "ret"
    /\ \/ ret[1] = None
       \/ IsDict(ret[1]) /\ ~HasKey(ret[1], "result")
       \/ /\ IsDict(ret[1]) /\ HasKey(ret[1], "result")
          /\ IsDict(Field(ret[1], "result", None))
          /\ LET content == Field(Field(ret[1], "result", None), "content", List(<<>>))
             IN  IsList(content) /\ \A i \in 1..Len(content.list) : IsDict(content.list[i])

====
